---- MODULE Spec2Model ----
(***************************************************************************)
(* Model of run() in src/main.js of aws-ssm-run-command: read the action   *)
(* inputs, submit one SSM SendCommand, poll GetCommandInvocation every     *)
(* 5 seconds until the status leaves the polling set or 120 checks were    *)
(* made, then set the outputs and the failure signal.                      *)
(***************************************************************************)
EXTENDS Integers, Sequences, FiniteSets, TLC

\* ------------------------------------------------------------------ bounds
\* exit codes the remote service reports are drawn from 0..MaxExitCode
MaxExitCode == 2

\* --------------------------------------------------------------- constants
\* const maxAttempts = 120
maxAttempts == 120

\* the value of a variable that has not been assigned, of an absent field
Undefined == "undefined"

\* ------------------------------------------------------------ input domains
\* values of the three required inputs: "" is a missing input
InstanceIds == {"", "i-0abc"}
Regions == {"", "eu-west-1"}
Commands == {"", "ls"}
WorkingDirectories == {"", "/srv"}
TimeoutInputs == {"", "30"}

\* what the remote service can answer
CommandIds == {"cmd-1", "cmd-2"}
Statuses == {"Pending", "InProgress", "Delayed", "Success", "Failed",
             "Cancelled", "TimedOut"}
ExitCodes == 0..MaxExitCode
StdoutContents == {"", "out"}
StderrContents == {Undefined, "", "err"}
SendErrors == {"InvalidInstanceId", "AccessDeniedException"}
InvocationErrors == {"InvocationDoesNotExist"}

\* the terminal states of the glossary
Terminal == {"Success", "Failed", "Cancelled", "TimedOut"}

OutputNames == {"stdout", "stderr", "status", "status-code", "command-id"}

VARIABLES
  pc,                      \* position in run()
  inputs,                  \* the action inputs as the pipeline supplies them
  commandParams,           \* the SendCommand request, once sent
  commandId,               \* sendCommandResponse.Command.CommandId
  status,                  \* let status
  attempts,                \* let attempts
  lastInvocationResponse,  \* let lastInvocationResponse
  error,                   \* the error caught by the catch block
  outputs,                 \* core.setOutput: name -> value set so far
  failed,                  \* core.setFailed: the messages, in order
  successLogged,           \* core.info('Command completed successfully ...')
  sendCalls,               \* SendCommand requests issued
  checkCalls,              \* GetCommandInvocation requests issued
  waitCalls                \* wait(5000) calls made

vars == <<pc, inputs, commandParams, commandId, status, attempts,
          lastInvocationResponse, error, outputs, failed, successLogged,
          sendCalls, checkCalls, waitCalls>>

\* ------------------------------------------------------------------ helpers
NoResponse == [Status |-> Undefined, ResponseCode |-> 0,
               StandardOutputContent |-> Undefined,
               StandardErrorContent |-> Undefined]

Responses == [Status : Statuses, ResponseCode : ExitCodes,
              StandardOutputContent : StdoutContents,
              StandardErrorContent : StderrContents]

NoParams == [InstanceIds |-> <<>>, commands |-> <<>>,
             workingDirectory |-> <<>>, TimeoutSeconds |-> 0]

NoError == [at |-> "none", message |-> ""]

\* x || ''
OrEmpty(x) == IF x = Undefined \/ x = "" THEN "" ELSE x

\* parseInt(timeout) on the timeout strings of the model
parseInt(s) == CASE s = "30" -> 30
                 [] s = "3600" -> 3600
                 [] OTHER -> 0

\* core.getInput('timeout-seconds', { required: false }) || '3600'
timeout == IF inputs.timeoutSeconds = "" THEN "3600" ELSE inputs.timeoutSeconds

\* core.getInput(name, { required: true }) throws on a missing input
getInputThrowsMissingAccepted(value) == FALSE
getInputThrows(value) == value = ""

\* the first required input whose getInput throws, in the order of the calls
FirstMissing ==
  IF getInputThrows(inputs.instanceId) THEN "instance-id"
  ELSE IF getInputThrows(inputs.region) THEN "region"
  ELSE IF getInputThrows(inputs.command) THEN "command"
  ELSE "none"

\* while (status === 'InProgress' || status === 'Pending')
IsPollingPastSuccess(s) == s = "InProgress" \/ s = "Pending" \/ s = "Success"
IsPolling(s) == s = "InProgress" \/ s = "Pending"

\* const stdout / stderr / statusCode, read from the last response
stdout == OrEmpty(lastInvocationResponse.StandardOutputContent)
stderr == OrEmpty(lastInvocationResponse.StandardErrorContent)
statusCode == lastInvocationResponse.ResponseCode

\* if (stderr)
StderrIgnored(s) == FALSE
StderrDetected(s) == s # ""

TimeoutMessageSameAsRemote == "Command execution timed out"
TimeoutMessage == "Command execution timeout - exceeded maximum wait time"

\* the message of the if / else-if chain after the outputs; "" is the else
\* branch, which logs success
FailureMessageNoExitCode(s, code) ==
  IF s = "Failed" THEN "Command execution failed with status: " \o s
  ELSE IF s = "TimedOut" THEN "Command execution timed out"
  ELSE IF s = "Cancelled" THEN "Command execution was cancelled"
  ELSE ""
FailureMessageNoFailedBranch(s, code) ==
  IF s = "TimedOut" THEN "Command execution timed out"
  ELSE IF s = "Cancelled" THEN "Command execution was cancelled"
  ELSE IF code # 0
    THEN "Command exited with non-zero status code: " \o ToString(code)
         \o ", status: " \o s
  ELSE ""
FailureMessageCodeUncited(s, code) ==
  IF s = "Failed" THEN "Command execution failed with status: " \o s
  ELSE IF s = "TimedOut" THEN "Command execution timed out"
  ELSE IF s = "Cancelled" THEN "Command execution was cancelled"
  ELSE IF code # 0
    THEN "Command exited with non-zero status code, status: " \o s
  ELSE ""
FailureMessage(s, code) ==
  IF s = "Failed" THEN "Command execution failed with status: " \o s
  ELSE IF s = "TimedOut" THEN "Command execution timed out"
  ELSE IF s = "Cancelled" THEN "Command execution was cancelled"
  ELSE IF code # 0
    THEN "Command exited with non-zero status code: " \o ToString(code)
         \o ", status: " \o s
  ELSE ""

\* core.setOutput writes a number as its decimal string, a string as it is
toCommandValue(n) == ToString(n)

\* core.setOutput(name, value), value a string
setOutput(name, value) ==
  outputs' = [n \in DOMAIN outputs \cup {name} |->
                IF n = name THEN value ELSE outputs[n]]

\* core.setFailed(message)
setFailed(message) == failed' = Append(failed, message)

\* ------------------------------------------------------------------ Init
Init ==
  /\ pc = "getInput"
  /\ inputs \in [instanceId : InstanceIds, region : Regions,
                 command : Commands, workingDirectory : WorkingDirectories,
                 timeoutSeconds : TimeoutInputs]
  /\ commandParams = NoParams
  /\ commandId = Undefined
  /\ status = Undefined
  /\ attempts = 0
  /\ lastInvocationResponse = NoResponse
  /\ error = NoError
  /\ outputs = [n \in {} |-> ""]
  /\ failed = <<>>
  /\ successLogged = FALSE
  /\ sendCalls = 0
  /\ checkCalls = 0
  /\ waitCalls = 0

\* ------------------------------------------------------------------ actions
\* lines 17-24: a missing required input throws out of getInput
GetInputsThrows ==
  /\ pc = "getInput"
  /\ FirstMissing # "none"
  /\ error' = [at |-> "getInput",
               message |-> "Input required and not supplied: " \o FirstMissing]
  /\ pc' = "catch"
  /\ UNCHANGED <<inputs, commandParams, commandId, status, attempts,
                 lastInvocationResponse, outputs, failed, successLogged,
                 sendCalls, checkCalls, waitCalls>>

\* lines 17-45: all required inputs present, the request is prepared
GetInputsOk ==
  /\ pc = "getInput"
  /\ FirstMissing = "none"
  /\ commandParams' =
       [InstanceIds |-> <<inputs.instanceId>>,
        commands |-> <<inputs.command>>,
        workingDirectory |->
          IF inputs.workingDirectory # ""
            THEN <<inputs.workingDirectory>> ELSE <<>>,
        TimeoutSeconds |-> parseInt(timeout)]
  /\ pc' = "send"
  /\ UNCHANGED <<inputs, commandId, status, attempts,
                 lastInvocationResponse, error, outputs, failed,
                 successLogged, sendCalls, checkCalls, waitCalls>>

\* lines 49-61: SendCommand answers with a command id
SendCommandOkStatusDone ==
  /\ pc = "send"
  /\ \E id \in CommandIds : commandId' = id
  /\ sendCalls' = sendCalls + 1
  /\ status' = "Success"
  /\ attempts' = 0
  /\ lastInvocationResponse' = NoResponse
  /\ pc' = "while"
  /\ UNCHANGED <<inputs, commandParams, error, outputs, failed,
                 successLogged, checkCalls, waitCalls>>
SendCommandOk ==
  /\ pc = "send"
  /\ \E id \in CommandIds : commandId' = id
  /\ sendCalls' = sendCalls + 1
  /\ status' = "InProgress"
  /\ attempts' = 0
  /\ lastInvocationResponse' = NoResponse
  /\ pc' = "while"
  /\ UNCHANGED <<inputs, commandParams, error, outputs, failed,
                 successLogged, checkCalls, waitCalls>>

\* lines 49-51: SendCommand rejects, the error goes to the catch block
SendCommandRejectsRetried ==
  /\ pc = "send"
  /\ sendCalls' = sendCalls + 1
  /\ \E m \in SendErrors : error' = [at |-> "send", message |-> m]
  /\ pc' = IF sendCalls = 0 THEN "send" ELSE "catch"
  /\ UNCHANGED <<inputs, commandParams, commandId, status, attempts,
                 lastInvocationResponse, outputs, failed, successLogged,
                 checkCalls, waitCalls>>
SendCommandRejects ==
  /\ pc = "send"
  /\ sendCalls' = sendCalls + 1
  /\ \E m \in SendErrors : error' = [at |-> "send", message |-> m]
  /\ pc' = "catch"
  /\ UNCHANGED <<inputs, commandParams, commandId, status, attempts,
                 lastInvocationResponse, outputs, failed, successLogged,
                 checkCalls, waitCalls>>

\* lines 63-68: the loop test holds and the attempt cap is reached
LoopCapExceeded ==
  /\ pc = "while"
  /\ IsPolling(status)
  /\ attempts >= maxAttempts
  /\ error' = [at |-> "cap", message |-> TimeoutMessage]
  /\ pc' = "catch"
  /\ UNCHANGED <<inputs, commandParams, commandId, status, attempts,
                 lastInvocationResponse, outputs, failed, successLogged,
                 sendCalls, checkCalls, waitCalls>>

\* lines 63-70: the loop test holds below the cap, the body starts
LoopContinueNoWait ==
  /\ pc = "while"
  /\ IsPolling(status)
  /\ ~(attempts >= maxAttempts)
  /\ pc' = IF attempts = 0 THEN "wait" ELSE "getInvocation"
  /\ UNCHANGED <<inputs, commandParams, commandId, status, attempts,
                 lastInvocationResponse, error, outputs, failed,
                 successLogged, sendCalls, checkCalls, waitCalls>>
LoopContinue ==
  /\ pc = "while"
  /\ IsPolling(status)
  /\ ~(attempts >= maxAttempts)
  /\ pc' = "wait"
  /\ UNCHANGED <<inputs, commandParams, commandId, status, attempts,
                 lastInvocationResponse, error, outputs, failed,
                 successLogged, sendCalls, checkCalls, waitCalls>>

\* line 63: the loop test fails, polling ends
LoopExit ==
  /\ pc = "while"
  /\ ~IsPolling(status)
  /\ pc' = "read"
  /\ UNCHANGED <<inputs, commandParams, commandId, status, attempts,
                 lastInvocationResponse, error, outputs, failed,
                 successLogged, sendCalls, checkCalls, waitCalls>>

\* line 70: await wait(5000)
Wait ==
  /\ pc = "wait"
  /\ waitCalls' = waitCalls + 1
  /\ pc' = "getInvocation"
  /\ UNCHANGED <<inputs, commandParams, commandId, status, attempts,
                 lastInvocationResponse, error, outputs, failed,
                 successLogged, sendCalls, checkCalls>>

\* lines 72-82: GetCommandInvocation answers
GetInvocationOkNoCount ==
  /\ pc = "getInvocation"
  /\ checkCalls' = checkCalls + 1
  /\ \E r \in Responses :
       /\ lastInvocationResponse' = r
       /\ status' = r.Status
  /\ attempts' = attempts
  /\ pc' = "while"
  /\ UNCHANGED <<inputs, commandParams, commandId, error, outputs, failed,
                 successLogged, sendCalls, waitCalls>>
GetInvocationOk ==
  /\ pc = "getInvocation"
  /\ checkCalls' = checkCalls + 1
  /\ \E r \in Responses :
       /\ lastInvocationResponse' = r
       /\ status' = r.Status
  /\ attempts' = attempts + 1
  /\ pc' = "while"
  /\ UNCHANGED <<inputs, commandParams, commandId, error, outputs, failed,
                 successLogged, sendCalls, waitCalls>>

\* lines 72-77: GetCommandInvocation rejects, the error goes to the catch
GetInvocationRejects ==
  /\ pc = "getInvocation"
  /\ checkCalls' = checkCalls + 1
  /\ \E m \in InvocationErrors : error' = [at |-> "getInvocation", message |-> m]
  /\ pc' = "catch"
  /\ UNCHANGED <<inputs, commandParams, commandId, status, attempts,
                 lastInvocationResponse, outputs, failed, successLogged,
                 sendCalls, waitCalls>>

\* lines 85-92: the result fields are read from the last response
ReadResult ==
  /\ pc = "read"
  /\ pc' = "stderr"
  /\ UNCHANGED <<inputs, commandParams, commandId, status, attempts,
                 lastInvocationResponse, error, outputs, failed,
                 successLogged, sendCalls, checkCalls, waitCalls>>

\* lines 94-97: if (stderr) { core.warning(stderr); core.setFailed(...) }
StderrCheck ==
  /\ pc = "stderr"
  /\ IF StderrDetected(stderr)
       THEN setFailed("Stderr detected")
       ELSE failed' = failed
  /\ pc' = "out_stdout"
  /\ UNCHANGED <<inputs, commandParams, commandId, status, attempts,
                 lastInvocationResponse, error, outputs, successLogged,
                 sendCalls, checkCalls, waitCalls>>

\* one core.setOutput call of lines 100-104
SetOutputStep(from, name, value, to) ==
  /\ pc = from
  /\ setOutput(name, value)
  /\ pc' = to
  /\ UNCHANGED <<inputs, commandParams, commandId, status, attempts,
                 lastInvocationResponse, error, failed, successLogged,
                 sendCalls, checkCalls, waitCalls>>

\* line 100
SetOutputStdout == SetOutputStep("out_stdout", "stdout", stdout, "out_stderr")
\* line 101
SetOutputStderr == SetOutputStep("out_stderr", "stderr", stderr, "out_status")
\* line 102
SetOutputStatus == SetOutputStep("out_status", "status", status, "out_code")
\* line 103
SetOutputStatusCode ==
  SetOutputStep("out_code", "status-code", toCommandValue(statusCode),
                "out_id")
\* line 104
SetOutputCommandIdFromInstance ==
  SetOutputStep("out_id", "command-id", inputs.instanceId, "classify")
SetOutputCommandId ==
  SetOutputStep("out_id", "command-id", commandId, "classify")

\* lines 107-119: the failure chain, or the success log line
Classify ==
  /\ pc = "classify"
  /\ IF FailureMessage(status, statusCode) # ""
       THEN /\ setFailed(FailureMessage(status, statusCode))
            /\ successLogged' = successLogged
       ELSE /\ successLogged' = TRUE
            /\ failed' = failed
  /\ pc' = "done"
  /\ UNCHANGED <<inputs, commandParams, commandId, status, attempts,
                 lastInvocationResponse, error, outputs,
                 sendCalls, checkCalls, waitCalls>>

\* lines 120-123: catch (error) { core.setFailed(error.message) }
Catch ==
  /\ pc = "catch"
  /\ setFailed(error.message)
  /\ pc' = "done"
  /\ UNCHANGED <<inputs, commandParams, commandId, status, attempts,
                 lastInvocationResponse, error, outputs, successLogged,
                 sendCalls, checkCalls, waitCalls>>

Next ==
  \/ GetInputsThrows
  \/ GetInputsOk
  \/ SendCommandOk
  \/ SendCommandRejects
  \/ LoopCapExceeded
  \/ LoopContinue
  \/ LoopExit
  \/ Wait
  \/ GetInvocationOk
  \/ GetInvocationRejects
  \/ ReadResult
  \/ StderrCheck
  \/ SetOutputStdout
  \/ SetOutputStderr
  \/ SetOutputStatus
  \/ SetOutputStatusCode
  \/ SetOutputCommandId
  \/ Classify
  \/ Catch

Spec == Init /\ [][Next]_vars

\* run() is one sequential async function: whenever a step is possible it is
\* taken, every awaited call returning or throwing
FairSpec == Spec /\ WF_vars(Next)

\* ------------------------------------------------------------ shorthands
AllOutputsSet == DOMAIN outputs = OutputNames

\* the run ended
Done == pc = "done"

\* a status check has returned
HasResponse == lastInvocationResponse # NoResponse

\* a required input is missing
SomeRequiredMissing ==
  inputs.instanceId = "" \/ inputs.region = "" \/ inputs.command = ""

\* ------------------------------------------------------------------ C1
\* C1: never more than 120 status checks are issued, and a run whose 120
\* status checks all returned a non-terminal status (any status other than
\* Success, Failed, Cancelled, TimedOut) ends marked failed with the
\* client-side timeout message, and with nothing else.
C1_CapFailsWithTimeout ==
  /\ checkCalls <= maxAttempts
  /\ (Done /\ checkCalls = maxAttempts /\ error.at # "getInvocation"
        /\ status \notin Terminal)
       => failed = <<TimeoutMessage>>

\* ------------------------------------------------------------------ C2
\* C2: polling ends only on Success, Failed, Cancelled or TimedOut: when the
\* loop is left for the result handling, the status is one of these four.
C2_OnlyTerminalEndsPolling ==
  pc \in {"read", "stderr", "out_stdout", "out_stderr", "out_status",
          "out_code", "out_id", "classify"}
    => status \in Terminal

\* ------------------------------------------------------------------ C3
\* C3: once a status check has returned Success, Failed, Cancelled or
\* TimedOut, no step issues another status check or changes the status, and
\* the status output, once set, is that status; a run that ended after a
\* terminal status has reported it as the status output.
C3_StopsOnFirstTerminal ==
  /\ [][(HasResponse /\ lastInvocationResponse.Status \in Terminal)
          => /\ checkCalls' = checkCalls
             /\ waitCalls' = waitCalls
             /\ lastInvocationResponse' = lastInvocationResponse
             /\ status' = lastInvocationResponse.Status
             /\ ("status" \in DOMAIN outputs'
                   => outputs'["status"] = lastInvocationResponse.Status)]_vars
  /\ [](Done /\ HasResponse /\ lastInvocationResponse.Status \in Terminal
          => /\ "status" \in DOMAIN outputs
             /\ outputs["status"] = lastInvocationResponse.Status)

\* a run that polled more than once, saw TimedOut and reported it
C3_Witness ==
  /\ Done
  /\ checkCalls = 3
  /\ lastInvocationResponse.Status = "TimedOut"
  /\ "status" \in DOMAIN outputs
  /\ outputs["status"] = "TimedOut"

\* ------------------------------------------------------------------ C4
\* C4: with any required input missing, no SendCommand and no
\* GetCommandInvocation request is ever issued, and the run ends marked
\* failed.
C4_MissingInputNoRemoteCall ==
  SomeRequiredMissing
    => /\ sendCalls = 0
       /\ checkCalls = 0
       /\ commandParams = NoParams
       /\ (Done => Len(failed) = 1)

\* a run that ended with only the command input missing
C4_Witness ==
  /\ Done
  /\ inputs.instanceId # "" /\ inputs.region # "" /\ inputs.command = ""
  /\ failed = <<"Input required and not supplied: command">>

\* ------------------------------------------------------------------ C5
\* C5: when SendCommand rejected, exactly one SendCommand was issued, no
\* wait and no status check was made, no output is set, and the only step
\* left is the failure signal with the error's message.
C5_SubmitFailureImmediate ==
  error.at = "send"
    => /\ sendCalls = 1
       /\ waitCalls = 0
       /\ checkCalls = 0
       /\ outputs = [n \in {} |-> ""]
       /\ pc \in {"catch", "done"}
       /\ (Done => failed = <<error.message>>)
       /\ (pc = "catch" => failed = <<>>)

\* a run that ended after SendCommand rejected with AccessDeniedException
C5_Witness ==
  /\ Done
  /\ error = [at |-> "send", message |-> "AccessDeniedException"]
  /\ failed = <<"AccessDeniedException">>

\* ------------------------------------------------------------------ C6
\* the result the last status check returned is clean: exit code 0, a status
\* that is none of Failed, TimedOut, Cancelled, and an empty stderr
CleanResult ==
  /\ lastInvocationResponse.ResponseCode = 0
  /\ lastInvocationResponse.Status \notin {"Failed", "TimedOut", "Cancelled"}
  /\ lastInvocationResponse.StandardErrorContent \in {Undefined, ""}

\* C6 as stated: a run whose last status check returned ends not marked
\* failed if and only if that result is clean.
C6_NotFailedIffCleanResult ==
  (Done /\ HasResponse /\ error.at # "getInvocation")
    => (failed = <<>> <=> CleanResult)

\* C6 as amended: a run in which a status check returned ends not marked
\* failed if and only if the last result is clean and its status is neither
\* InProgress nor Pending.
C6_NotFailedIffCleanAndNotPolling ==
  (Done /\ HasResponse)
    => (failed = <<>> <=>
          (CleanResult
             /\ lastInvocationResponse.Status \notin {"InProgress", "Pending"}))

\* a run that stopped at the cap on a clean InProgress result, marked failed
C6_Witness ==
  /\ Done
  /\ CleanResult
  /\ lastInvocationResponse.Status = "InProgress"
  /\ checkCalls = maxAttempts
  /\ failed = <<TimeoutMessage>>

\* ------------------------------------------------------------------ C7
\* C7: every run that obtained a command id and whose remote calls all
\* returned ends with all five outputs set, the run stopped by the 120-check
\* cap included.
C7_AllOutputsAlwaysSet ==
  (Done /\ commandId # Undefined /\ error.at # "getInvocation")
    => AllOutputsSet

\* ------------------------------------------------------------------ C8
\* C8: a step that raises the failure signal from a status response is taken
\* only when the five outputs have already been set.
C8_OutputsBeforeFailure ==
  [][(failed' # failed /\ HasResponse /\ error.at # "getInvocation")
       => AllOutputsSet]_vars

\* ------------------------------------------------------------------ C9
\* C9: the failure signal is raised at most once, and after it no step
\* issues a remote call, sets an output or raises the failure signal.
C9_FailureOnceAndFinal ==
  [][failed # <<>>
       => /\ failed' = failed
          /\ outputs' = outputs
          /\ sendCalls' = sendCalls
          /\ checkCalls' = checkCalls]_vars

\* ------------------------------------------------------------------ C10
\* C10: a run that ended on status Success with exit code 0 and a non-empty
\* stderr is marked failed, by the stderr check.
C10_StderrFailsSuccess ==
  (/\ Done
   /\ lastInvocationResponse.Status = "Success"
   /\ lastInvocationResponse.ResponseCode = 0
   /\ lastInvocationResponse.StandardErrorContent \notin {Undefined, ""})
    => failed = <<"Stderr detected">>

\* a run that ended on Success, exit code 0 and stderr "err"
C10_Witness ==
  /\ Done
  /\ lastInvocationResponse.Status = "Success"
  /\ lastInvocationResponse.ResponseCode = 0
  /\ lastInvocationResponse.StandardErrorContent = "err"
  /\ failed # <<>>

\* ------------------------------------------------------------------ C11
\* the last status check returned Success, exit code 0 and no stderr
SuccessResult ==
  /\ lastInvocationResponse.Status = "Success"
  /\ lastInvocationResponse.ResponseCode = 0
  /\ lastInvocationResponse.StandardErrorContent \in {Undefined, ""}

\* C11: on Success, exit code 0 and empty stderr the failure signal is not
\* raised at any point, and the run ends with the five outputs set:
\* status-code is 0 in its written form, status is Success, stderr is empty
\* and command-id is the id the submission returned.
C11_SuccessOutputs ==
  SuccessResult
    => /\ failed = <<>>
       /\ Done => /\ AllOutputsSet
                  /\ outputs["status-code"] = "0"
                  /\ outputs["status"] = "Success"
                  /\ outputs["stderr"] = ""
                  /\ outputs["command-id"] = commandId
                  /\ commandId \in CommandIds

\* a successful run whose submission returned cmd-2
C11_Witness ==
  /\ Done
  /\ SuccessResult
  /\ commandId = "cmd-2"
  /\ outputs["command-id"] = "cmd-2"
  /\ successLogged

\* ------------------------------------------------------------------ C12
\* the messages of the failure signals raised so far
FailedMessages == {failed[i] : i \in 1..Len(failed)}

\* C12: a run that ended on status Failed is marked failed with the message
\* naming Failed, whatever the exit code and the stderr content are.
C12_FailedStatusNamed ==
  (Done /\ lastInvocationResponse.Status = "Failed")
    => "Command execution failed with status: Failed" \in FailedMessages

\* a run that ended on Failed with exit code 0 and stderr "err"
C12_Witness ==
  /\ Done
  /\ lastInvocationResponse.Status = "Failed"
  /\ lastInvocationResponse.ResponseCode = 0
  /\ lastInvocationResponse.StandardErrorContent = "err"
  /\ Len(failed) = 2

\* ------------------------------------------------------------------ C13
\* C13: a run that ended on status Success with a non-zero exit code is
\* marked failed with the message that cites that exit code.
C13_NonZeroExitCited ==
  (Done /\ lastInvocationResponse.Status = "Success"
        /\ lastInvocationResponse.ResponseCode # 0)
    => ("Command exited with non-zero status code: "
          \o ToString(lastInvocationResponse.ResponseCode)
          \o ", status: Success") \in FailedMessages

\* a run that ended on Success with exit code 2
C13_Witness ==
  /\ Done
  /\ lastInvocationResponse.Status = "Success"
  /\ lastInvocationResponse.ResponseCode = 2
  /\ failed = <<"Command exited with non-zero status code: 2, status: Success">>

\* ------------------------------------------------------------------ C14
\* C14: the failure raised for the attempt cap and the failure raised for a
\* remote TimedOut status never occur in the same run and never carry the
\* same message, and the cap failure is raised only when the last status
\* observed is none of Success, Failed, Cancelled, TimedOut.
C14_CapDistinctFromRemoteTimeout ==
  /\ (error.at = "cap" /\ Done)
       => /\ failed = <<TimeoutMessage>>
          /\ "Command execution timed out" \notin FailedMessages
          /\ status \notin Terminal
          /\ lastInvocationResponse.Status \notin Terminal
  /\ (Done /\ lastInvocationResponse.Status = "TimedOut")
       => /\ "Command execution timed out" \in FailedMessages
          /\ TimeoutMessage \notin FailedMessages
          /\ error.at # "cap"

\* a run stopped by the cap, the last status being Pending
C14_Witness ==
  /\ Done
  /\ error.at = "cap"
  /\ lastInvocationResponse.Status = "Pending"
  /\ failed = <<TimeoutMessage>>

\* ------------------------------------------------------------------ C15
\* C15: every status check is issued right after exactly one wait and every
\* wait is followed by a status check: a wait is only ever the step before a
\* status check, a status check is only issued with one wait made since the
\* previous check (or since the submission), and a run that ended has made
\* as many waits as status checks.
C15_OneWaitPerCheck ==
  /\ [][/\ waitCalls' # waitCalls
             => /\ waitCalls' = waitCalls + 1
                /\ waitCalls = checkCalls
                /\ sendCalls = 1
                /\ pc' = "getInvocation"
        /\ checkCalls' # checkCalls
             => /\ checkCalls' = checkCalls + 1
                /\ waitCalls = checkCalls + 1
                /\ waitCalls' = waitCalls
        /\ pc = "getInvocation" => checkCalls' = checkCalls + 1]_vars
  /\ [](Done => waitCalls = checkCalls)

\* a run that ended after three waits and three status checks
C15_Witness ==
  /\ Done
  /\ waitCalls = 3
  /\ checkCalls = 3

\* ------------------------------------------------------------------ C16
\* C16: a run in which the failure signal has been raised has not emitted
\* the 'Command completed successfully' log line.
C16_FailedExcludesSuccessLog ==
  ~(failed # <<>> /\ successLogged)

\* ------------------------------------------------------------------ C17
\* C17: after a successful submission the result fields are read and the
\* outputs are set only once a status check has returned, and each of the
\* outputs stdout, stderr, status, status-code that is set has the value of
\* the last status response.
C17_ResultFromLastResponse ==
  /\ (pc \in {"read", "stderr", "out_stdout", "out_stderr", "out_status",
              "out_code", "out_id", "classify"}
        \/ outputs # [n \in {} |-> ""])
       => /\ HasResponse
          /\ checkCalls >= 1
          /\ attempts = checkCalls
          /\ sendCalls = 1
  /\ "stdout" \in DOMAIN outputs
       => outputs["stdout"] = lastInvocationResponse.StandardOutputContent
  /\ "stderr" \in DOMAIN outputs
       => outputs["stderr"] =
            (IF lastInvocationResponse.StandardErrorContent = "err"
               THEN "err" ELSE "")
  /\ "status" \in DOMAIN outputs
       => outputs["status"] = lastInvocationResponse.Status
  /\ "status-code" \in DOMAIN outputs
       => outputs["status-code"] =
            ToString(lastInvocationResponse.ResponseCode)

\* a run that ended with the four outputs of a Cancelled response after two
\* polling answers
C17_Witness ==
  /\ Done
  /\ checkCalls = 3
  /\ lastInvocationResponse =
       [Status |-> "Cancelled", ResponseCode |-> 1,
        StandardOutputContent |-> "out", StandardErrorContent |-> "err"]
  /\ outputs["stdout"] = "out"
  /\ outputs["stderr"] = "err"
  /\ outputs["status"] = "Cancelled"
  /\ outputs["status-code"] = "1"

\* ------------------------------------------------------------------ C18
\* C18: every run ends, having issued at most one SendCommand and at most
\* 120 status checks, and a run that ended has raised the failure signal or
\* emitted the success log line.
C18_Terminates ==
  /\ <>Done
  /\ [](sendCalls <= 1 /\ checkCalls <= maxAttempts)
  /\ [](Done => (failed # <<>> \/ successLogged))

\* a run that ended at the cap, after one SendCommand and 120 status checks
C18_Witness ==
  /\ Done
  /\ sendCalls = 1
  /\ checkCalls = maxAttempts
  /\ failed # <<>>

====
